---- MODULE Spec2Model ----
(***************************************************************************)
(* VisionGuard: the motion detector of src/src/services/video_analyzer.py. *)
(*                                                                         *)
(* One VideoAnalyzer is constructed and one call of analyze() runs on it.  *)
(* The capture handle (cv2.VideoCapture) is the environment: each read     *)
(* yields a frame of the catalogue, the end of the stream, a decode        *)
(* failure with frames still remaining, or an exception of the library.    *)
(*                                                                         *)
(* Numbers.  Python floats are modelled as exact rationals [num, den] in   *)
(* lowest terms; motion_threshold is held in percent (0.02 is 2).  Images  *)
(* are scaled down: a raw frame is NativeH x NativeW BGR pixels and the    *)
(* processing resolution defaults to PROCESSING_HEIGHT x PROCESSING_WIDTH  *)
(* model pixels.  cv2.resize is modelled as index resampling, cvtColor as  *)
(* the BGR->Y weighting, GaussianBlur as a clipped 3x3 mean; absdiff,      *)
(* threshold, dilate, count_nonzero and mean are computed as cv2/numpy do. *)
(*                                                                         *)
(* Five specifications share the operators above them:                     *)
(*   Spec        one analyze() call on one VideoAnalyzer, frame by frame;  *)
(*   SpecLive    the same call under weak fairness, for fewer             *)
(*               configurations;                                           *)
(*   SpecCalls   two analyze() calls interleaved on one VideoAnalyzer;     *)
(*   SpecDetails one analyze_with_details() call and its two handles;      *)
(*   SpecApi     two workers running endpoints.analyze_video over one      *)
(*               upload directory, database and metrics registry, the     *)
(*               analyzer reduced to its outcome for the uploaded bytes.   *)
(* Each specification holds the variables of the others at rest.           *)
(***************************************************************************)
EXTENDS Integers, Sequences, FiniteSets, TLC

\* ------------------------------------------------------------------ bounds
\* Longest stream the frame source delivers.
MaxFrames == 10
\* Largest wall-clock duration (time.time() difference) of one call.
MaxTime == 1
\* Longest video of the two-call model.
MaxVideoLen == 2
\* Requests the API receives in one behaviour.
MaxRequests == 2
\* Last millisecond of the clock.
MaxClock == 1
\* Native resolution of the frames of the catalogue.
NativeW == 10
NativeH == 2

\* ------------------------------------------------- settings (src/config.py)
FRAME_SAMPLE_RATE == 5
\* 0.02, in percent
MOTION_THRESHOLD == 2
\* 640 x 480 in the source; the environment overrides them (BaseSettings),
\* and the model runs with a scaled-down processing resolution.
PROCESSING_WIDTH == 10
PROCESSING_HEIGHT == 2

settings ==
  [ FRAME_SAMPLE_RATE |-> FRAME_SAMPLE_RATE,
    MOTION_THRESHOLD  |-> MOTION_THRESHOLD,
    PROCESSING_WIDTH  |-> PROCESSING_WIDTH,
    PROCESSING_HEIGHT |-> PROCESSING_HEIGHT ]

\* --------------------------------------------------------------- rationals
Abs(x) == IF x < 0 THEN -x ELSE x

RECURSIVE GCD(_, _)
GCD(a, b) == IF b = 0 THEN a ELSE GCD(b, a % b)

\* n / d (d > 0) in lowest terms
Rat(n, d) ==
  IF n = 0 THEN [num |-> 0, den |-> 1]
  ELSE LET g == GCD(Abs(n), d) IN [num |-> n \div g, den |-> d \div g]

RatZero == [num |-> 0, den |-> 1]
RatAdd(a, b) == Rat(a.num * b.den + b.num * a.den, a.den * b.den)
\* a / k for an integer k > 0
RatDivInt(a, k) == Rat(a.num, a.den * k)
\* a > k for an integer k
RatGtInt(a, k) == a.num > k * a.den

\* ------------------------------------------------------------------ images
\* An image is a sequence of rows, a row a sequence of pixels.
Rows(img) == Len(img)
Cols(img) == IF Len(img) = 0 THEN 0 ELSE Len(img[1])
Pixels(img) == { <<r, c>> : r \in 1..Rows(img), c \in 1..Cols(img) }

RECURSIVE SumOver(_, _)
SumOver(img, S) ==
  IF S = {} THEN 0
  ELSE LET p == CHOOSE q \in S : TRUE
       IN img[p[1]][p[2]] + SumOver(img, S \ {p})

\* Raw frames (BGR), after scripts/generate_test_video.py: a uniform grey
\* frame, a uniform frame 20 levels brighter, and the grey frame with a
\* coloured object in its first or in its last column.
FrameNames == {"static", "dim", "objL", "objR"}

Background == <<100, 100, 100>>
Brighter   == <<120, 120, 120>>
Object     == <<100, 160, 220>>

RawFrame(name) ==
  [r \in 1..NativeH |-> [c \in 1..NativeW |->
     CASE name = "static" -> Background
       [] name = "dim"    -> Brighter
       [] name = "objL"   -> IF c = 1 THEN Object ELSE Background
       [] OTHER           -> IF c = NativeW THEN Object ELSE Background ]]

\* ------------------------------------------- VideoAnalyzer._preprocess_frame
\* cv2.resize(frame, (width, height)): sample the source at the scaled index.
Resize(frame, width, height) ==
  [r \in 1..height |-> [c \in 1..width |->
     frame[((r - 1) * Rows(frame)) \div height + 1]
          [((c - 1) * Cols(frame)) \div width + 1] ]]

\* cv2.cvtColor(.., COLOR_BGR2GRAY): Y = 0.114 B + 0.587 G + 0.299 R, rounded.
Gray(bgr) == (114 * bgr[1] + 587 * bgr[2] + 299 * bgr[3] + 500) \div 1000

CvtColor(img) ==
  [r \in 1..Rows(img) |-> [c \in 1..Cols(img) |-> Gray(img[r][c])]]

\* cv2.GaussianBlur: a smoothing pass; each pixel becomes the rounded mean of
\* its neighbourhood (clipped at the border).
BlurWindow(img, r, c) ==
  { q \in Pixels(img) : Abs(q[1] - r) <= 1 /\ Abs(q[2] - c) <= 1 }

GaussianBlur(img) ==
  [r \in 1..Rows(img) |-> [c \in 1..Cols(img) |->
     LET win == BlurWindow(img, r, c)
         n   == Cardinality(win)
     IN (2 * SumOver(img, win) + n) \div (2 * n) ]]

\* cv2.resize raises cv2.error for a target size that is not positive.
PreprocessRaises(cfg) ==
  cfg.processing_width <= 0 \/ cfg.processing_height <= 0

_preprocess_frame(cfg, frame) ==
  GaussianBlur(CvtColor(Resize(frame, cfg.processing_width, cfg.processing_height)))

\* ---------------------------------------------- VideoAnalyzer._detect_motion
\* cv2.absdiff
AbsDiff(a, b) ==
  [r \in 1..Rows(a) |-> [c \in 1..Cols(a) |-> Abs(a[r][c] - b[r][c])]]

\* Variant: THRESH_BINARY_INV for THRESH_BINARY.
ThresholdInverted(img) ==
  [r \in 1..Rows(img) |-> [c \in 1..Cols(img) |->
     IF img[r][c] > 25 THEN 0 ELSE 255 ]]

\* cv2.threshold(frame_diff, 25, 255, THRESH_BINARY)
Threshold(img) ==
  [r \in 1..Rows(img) |-> [c \in 1..Cols(img) |->
     IF img[r][c] > 25 THEN 255 ELSE 0 ]]

\* One pass of cv2.dilate with a 5 x 5 kernel of ones: the maximum over the
\* pixels at most 2 rows and 2 columns away.
Dilate1(img) ==
  [r \in 1..Rows(img) |-> [c \in 1..Cols(img) |->
     IF \E q \in Pixels(img) :
          /\ Abs(q[1] - r) <= 2
          /\ Abs(q[2] - c) <= 2
          /\ img[q[1]][q[2]] # 0
     THEN 255 ELSE 0 ]]

\* cv2.dilate(thresh, kernel, iterations=2)
Dilate(img) == Dilate1(Dilate1(img))

CountNonzero(img) ==
  Cardinality({ q \in Pixels(img) : img[q[1]][q[2]] # 0 })

\* Variant: a change fraction equal to the threshold counts as motion too.
ExceedsThresholdOrEqual(changed_pixels, total_pixels, motion_threshold) ==
  changed_pixels * 100 >= motion_threshold * total_pixels

\* line 262: changed_pixels / total_pixels > motion_threshold, the threshold
\* in percent
ExceedsThreshold(changed_pixels, total_pixels, motion_threshold) ==
  changed_pixels * 100 > motion_threshold * total_pixels

\* (motion_detected, motion_intensity) of two preprocessed frames
_detect_motion(cfg, prev_frame, curr_frame) ==
  LET frame_diff     == AbsDiff(prev_frame, curr_frame)
      dilated        == Dilate(Threshold(frame_diff))
      total_pixels   == Rows(dilated) * Cols(dilated)
      changed_pixels == CountNonzero(dilated)
  IN [ motion_detected  |->
         ExceedsThreshold(changed_pixels, total_pixels, cfg.motion_threshold),
       motion_intensity |->
         Rat(SumOver(frame_diff, Pixels(frame_diff)), total_pixels * 255),
       changed_pixels   |-> changed_pixels,
       total_pixels     |-> total_pixels ]

\* ------------------------------------------------------------------- state
\* An Optional value: <<>> is None, <<v>> is the value v.
None == <<>>
Some(v) == <<v>>

VARIABLES
  args,          \* what the caller passed to VideoAnalyzer(...)
  analyzer,      \* the fields of the VideoAnalyzer instance
  pc,            \* position of the analyze() call
  run,           \* the locals of _process_video
  cap,           \* the capture handle and what happened to it
  result,        \* the VideoAnalysisResult analyze() returned, or None
  error,         \* the exception analyze() raised, or ""
  observed       \* history: what the comparisons made so far yielded

vars == <<args, analyzer, pc, run, cap, result, error, observed>>

\* Two analyze() calls in flight on one VideoAnalyzer instance (the variables
\* args and analyzer above are that instance).
VARIABLES
  calls,         \* per call: its position, its source, what it returned
  caps,          \* the capture handles: the video opened and the read position
  frames,        \* the activation records of _process_video (its locals)
  details        \* one analyze_with_details call: position, handles, output

callVars == <<calls, caps, frames, details>>

\* The HTTP API: workers running analyze_video over one upload directory, one
\* database and one metrics registry.
VARIABLES
  workers,       \* per worker: the analyze_video call it runs
  fs,            \* the upload directory: path -> the file stored there
  clock,         \* time.time() in milliseconds
  db,            \* the rows of video_analyses, in insertion order
  metrics,       \* the Prometheus counters
  responses,     \* history: the 200 responses sent, in order
  served,        \* requests received so far
  has_magic      \* HAS_MAGIC: python-magic was imported

apiVars == <<workers, fs, clock, db, metrics, responses, served, has_magic>>

\* ---------------------------------------------------- VideoAnalyzer.__init__
\* Python's `x or default`: the default replaces None and every falsy value.
Or(x, default) == IF x = None \/ x[1] = 0 THEN default ELSE x[1]

__init__(a) ==
  [ frame_sample_rate |-> Or(a.frame_sample_rate, settings.FRAME_SAMPLE_RATE),
    motion_threshold  |-> Or(a.motion_threshold, settings.MOTION_THRESHOLD),
    processing_width  |-> Or(a.processing_width, settings.PROCESSING_WIDTH),
    processing_height |-> Or(a.processing_height, settings.PROCESSING_HEIGHT) ]

\* The arguments a caller may pass: nothing, a usual value, or a malformed one.
ArgSets ==
  [ frame_sample_rate : {None, Some(-2), Some(0), Some(1), Some(2)},
    motion_threshold  : {None, Some(-50), Some(0), Some(50), Some(150)},
    processing_width  : {None, Some(-1), Some(NativeW \div 2)},
    processing_height : {None, Some(-1)} ]

\* Every configuration an analyzer can hold.
Configs == { __init__(a) : a \in ArgSets }

\* The frames of the catalogue preprocessed once per processing resolution,
\* and every pair of them compared once per threshold: the loop below looks
\* the values of _preprocess_frame and _detect_motion up here.
Resolutions ==
  { <<c.processing_width, c.processing_height>> : c \in { k \in Configs : ~PreprocessRaises(k) } }

Preprocessed ==
  [ d \in Resolutions |-> [ name \in FrameNames |->
      _preprocess_frame([processing_width |-> d[1], processing_height |-> d[2]],
                        RawFrame(name)) ] ]

ProcessedPairs ==
  UNION { { <<Preprocessed[d][m], Preprocessed[d][n]>> : m \in FrameNames, n \in FrameNames }
          : d \in Resolutions }

Compared ==
  [ t \in { c.motion_threshold : c \in Configs } |-> [ p \in ProcessedPairs |->
      _detect_motion([motion_threshold |-> t], p[1], p[2]) ] ]

PreprocessFrame(cfg, name) ==
  Preprocessed[<<cfg.processing_width, cfg.processing_height>>][name]

DetectMotion(cfg, prev_frame, curr_frame) ==
  Compared[cfg.motion_threshold][<<prev_frame, curr_frame>>]

\* ---------------------------------------------------- _process_video, locals
\* Variant: the analysed-frame counter starts at 1.
ProcessLocalsCountedFromOne(total_frames) ==
  [ frame_count            |-> 0,
    frames_analyzed        |-> 1,
    motion_frames          |-> 0,
    prev_frame             |-> None,
    total_motion_intensity |-> RatZero,
    total_frames           |-> total_frames ]

\* lines 137-143
ProcessLocals(total_frames) ==
  [ frame_count            |-> 0,
    frames_analyzed        |-> 0,
    motion_frames          |-> 0,
    prev_frame             |-> None,
    total_motion_intensity |-> RatZero,
    total_frames           |-> total_frames ]

\* Python's a % b for b # 0: the result has the sign of b.
PyMod(a, b) == IF b > 0 THEN a % b ELSE -((-a) % (-b))

\* Variant: frames counted from 0 (the count tested before it is incremented).
IsSampledFromZero(frame_count, frame_sample_rate) ==
  PyMod(frame_count - 1, frame_sample_rate) = 0

\* Variant: no frame is skipped (the stride test is left out).
IsSampledEveryFrame(frame_count, frame_sample_rate) == TRUE

\* line 156: the frame with this count is analysed
IsSampled(frame_count, frame_sample_rate) ==
  PyMod(frame_count, frame_sample_rate) = 0

\* Variant: the intensity is added for every comparison, flagged or not.
AccumulateEveryIntensity(r, obs) ==
  [r EXCEPT !.motion_frames = IF obs.motion_detected THEN @ + 1 ELSE @,
            !.total_motion_intensity = RatAdd(@, obs.motion_intensity)]

\* lines 171-173: the accumulators after one comparison
Accumulate(r, obs) ==
  IF obs.motion_detected
  THEN [r EXCEPT !.motion_frames = @ + 1,
                 !.total_motion_intensity = RatAdd(@, obs.motion_intensity)]
  ELSE r

\* Variant: the previous-frame slot starts as the first frame itself, so the
\* first analysed frame is compared too.
ComparisonFromFirst(cfg, r, processed_frame) ==
  IF r.prev_frame # None
  THEN Some(DetectMotion(cfg, r.prev_frame[1], processed_frame))
  ELSE Some(DetectMotion(cfg, processed_frame, processed_frame))

\* lines 164-169: the comparison made for this frame, None for the first one
Comparison(cfg, r, processed_frame) ==
  IF r.prev_frame # None
  THEN Some(DetectMotion(cfg, r.prev_frame[1], processed_frame))
  ELSE None

\* Variant: the current frame replaces the previous one only when motion was
\* flagged (or when the slot is empty).
CompareAndKeepOnMotion(cfg, r, processed_frame) ==
  LET made  == Comparison(cfg, r, processed_frame)
      after == IF made # None THEN Accumulate(r, made[1]) ELSE r
  IN IF made = None \/ made[1].motion_detected
     THEN [after EXCEPT !.prev_frame = Some(processed_frame)]
     ELSE after

\* lines 164-175: compare with the previous frame, then keep the current one
CompareAndKeep(cfg, r, processed_frame) ==
  LET made  == Comparison(cfg, r, processed_frame)
      after == IF made # None THEN Accumulate(r, made[1]) ELSE r
  IN [after EXCEPT !.prev_frame = Some(processed_frame)]

\* Variant: floor division (// for /).
MotionPercentageFloorDiv(motion_frames, frames_analyzed) ==
  IF frames_analyzed > 0 THEN Rat((motion_frames \div frames_analyzed) * 100, 1)
  ELSE RatZero

\* Variant: the operands of the division swapped.
MotionPercentageSwapped(motion_frames, frames_analyzed) ==
  IF motion_frames > 0 THEN Rat(frames_analyzed * 100, motion_frames) ELSE RatZero

\* line 178
MotionPercentage(motion_frames, frames_analyzed) ==
  IF frames_analyzed > 0 THEN Rat(motion_frames * 100, frames_analyzed) ELSE RatZero

\* line 179
AvgMotionIntensity(total_motion_intensity, motion_frames) ==
  IF motion_frames > 0 THEN RatDivInt(total_motion_intensity, motion_frames)
  ELSE RatZero

\* Variant: >= for >.
HasMotionAtLeast(motion_percentage) == motion_percentage.num >= 10 * motion_percentage.den

\* line 182
HasMotion(motion_percentage) == RatGtInt(motion_percentage, 10)

\* lines 177-196
MakeResult(r) ==
  LET motion_percentage == MotionPercentage(r.motion_frames, r.frames_analyzed)
  IN [ motion_detected      |-> HasMotion(motion_percentage),
       frames_analyzed      |-> r.frames_analyzed,
       processing_time      |-> 0,
       total_frames         |-> r.total_frames,
       motion_percentage    |-> motion_percentage,
       avg_motion_intensity |->
         AvgMotionIntensity(r.total_motion_intensity, r.motion_frames) ]

\* ------------------------------------------------------- the capture handle
\* The frame count the container metadata reports (cap.get, line 143): not
\* tied to the number of frames that decode.
MetaCounts == {0, MaxFrames}

NewCapture ==
  [ opened        |-> FALSE,
    opens         |-> 0,
    releases      |-> 0,
    decoded       |-> 0,       \* frames delivered so far
    video         |-> None,    \* the one frame delivered so far, or "mixed"
    last          |-> None,    \* the frame delivered last
    eos           |-> FALSE,   \* cap.read() has returned ret = False
    decode_failed |-> FALSE ]

\* The handle after it delivered the frame `name`.
Deliver(c, name) ==
  [c EXCEPT !.decoded = @ + 1,
            !.last = Some(name),
            !.video = IF @ = None \/ @ = Some(name) THEN Some(name) ELSE Some("mixed")]

\* cap.release()
Release(c) == [c EXCEPT !.opened = FALSE, !.releases = @ + 1]

\* Variant: the handle is released after the result is returned only, not in
\* a finally clause.
ReleaseOnReturnOnly(c, exit) == IF exit = "return" THEN Release(c) ELSE c

\* lines 107-125: the finally clause runs on both exits of the try block
\* (exit is "return" or "raise")
Finally(c, exit) == Release(c)

\* What the comparisons yielded, kept beside the code's own accumulators.
NoObservations ==
  [ comparisons       |-> 0,
    flagged           |-> 0,
    flagged_intensity |-> RatZero,
    unflagged_nonzero |-> FALSE,
    last              |-> None ]     \* what the last comparison returned

Observe(o, obs) ==
  [ comparisons       |-> o.comparisons + 1,
    flagged           |-> o.flagged + (IF obs.motion_detected THEN 1 ELSE 0),
    flagged_intensity |-> IF obs.motion_detected
                          THEN RatAdd(o.flagged_intensity, obs.motion_intensity)
                          ELSE o.flagged_intensity,
    unflagged_nonzero |-> \/ o.unflagged_nonzero
                          \/ ~obs.motion_detected /\ obs.motion_intensity # RatZero,
    last              |-> Some(obs) ]

\* ------------------------------------------------------ two calls in flight
Calls == {1, 2}

\* A source file: the frames it decodes to and the frame count of its
\* container metadata.
VideoFrameNames == {"static", "objL"}
Videos == UNION { [1..n -> VideoFrameNames] : n \in 0..MaxVideoLen }
Sources == [ video : Videos, meta : MetaCounts ]

EmptySource == [ video |-> << >>, meta |-> 0 ]

\* overlapped (history): the call read a frame while another call was inside
\* its own loop
NoCall ==
  [ pc |-> "ready", source |-> EmptySource, result |-> None, overlapped |-> FALSE ]
NoHandle == [ opened |-> FALSE, source |-> EmptySource, pos |-> 0 ]

\* The frame rates a container reports (cap.get(CAP_PROP_FPS)); 0 when it
\* reports none.
FpsValues == {0, 25, 30}

\* A capture handle of analyze_with_details and what was done with it.
\* stale_reads (history): properties read from it after its release.
NoDetailHandle ==
  [ opened |-> FALSE, opens |-> 0, releases |-> 0, stale_reads |-> 0 ]

NoDetails ==
  [ pc      |-> "ready",
    source  |-> EmptySource,
    fps_of  |-> 0,            \* the frame rate of the source
    handles |-> << >>,        \* the capture handles created, in order
    result  |-> None,
    fps     |-> 0,
    duration |-> RatZero,
    info    |-> None,         \* the dictionary returned
    error   |-> "" ]

\* No second-level call is in flight.
NoCalls ==
  /\ calls = [i \in Calls |-> NoCall]
  /\ caps = [i \in Calls |-> NoHandle]
  /\ frames = [i \in Calls |-> ProcessLocals(0)]
  /\ details = NoDetails

\* ------------------------------------------------- the HTTP API, its data
Workers == {1, 2}

\* config.py line 34, validators.py lines 50-51
MAX_VIDEO_SIZE_MB == 100
max_size_bytes == MAX_VIDEO_SIZE_MB * 1024 * 1024

\* validators.py lines 32-41
ALLOWED_MIME_TYPES ==
  {"video/mp4", "video/x-msvideo", "video/avi", "video/quicktime", "video/x-matroska"}
ALLOWED_EXTENSIONS == {".mp4", ".avi", ".mov", ".mkv"}

\* str.lower() on the extensions of the catalogue
Lower(ext) == IF ext = ".MP4" THEN ".mp4" ELSE ext

\* The uploads a client may send: the client's file name (stem and
\* extension), the size in bytes, the MIME type libmagic detects and what
\* the bytes are to the decoder.
Uploads ==
  { [ filename |-> [stem |-> "a", ext |-> ".mp4"], size |-> max_size_bytes,
      mime |-> "video/mp4", content |-> "motion" ],
    [ filename |-> [stem |-> "b", ext |-> ".MP4"], size |-> 1,
      mime |-> "video/mp4", content |-> "static" ],
    [ filename |-> [stem |-> "a", ext |-> ".mp4"], size |-> 1,
      mime |-> "video/mp4", content |-> "corrupt" ],
    [ filename |-> [stem |-> "a", ext |-> ".mp4"], size |-> max_size_bytes + 1,
      mime |-> "video/mp4", content |-> "motion" ],
    [ filename |-> [stem |-> "n", ext |-> ".txt"], size |-> 1,
      mime |-> "text/plain", content |-> "text" ],
    [ filename |-> [stem |-> "n", ext |-> ".txt"], size |-> max_size_bytes + 1,
      mime |-> "text/plain", content |-> "text" ],
    [ filename |-> [stem |-> "a", ext |-> ".mp4"], size |-> 1,
      mime |-> "text/plain", content |-> "text" ] }

\* file_utils.py lines 42-44: f"{timestamp}_{filename}" under the upload
\* directory
UploadPath(timestamp, filename) == [ timestamp |-> timestamp, filename |-> filename ]

\* Path.suffix of a saved file
Suffix(file_path) == file_path.filename.ext

Paths == [ timestamp : 0..MaxClock, filename : { u.filename : u \in Uploads } ]

\* The file a request's save_upload_file wrote.
StoredFile(rid, u) ==
  [ writer |-> rid, size |-> u.size, mime |-> u.mime, content |-> u.content ]

ErrorLabels ==
  { "VideoTooLargeError", "UnsupportedFormatError", "InvalidVideoError",
    "VideoProcessingError", "UnexpectedError" }

NoMetrics ==
  [ videos_processed_total       |-> 0,
    videos_motion_detected_total |-> 0,
    videos_processing_errors_total |-> [l \in ErrorLabels |-> 0] ]

\* A worker that runs no request; the fields are the locals of analyze_video
\* and what became of the call.
NoRequest ==
  [ pc            |-> "idle",
    rid           |-> 0,
    filename      |-> None,      \* file.filename
    video_path    |-> None,
    validated     |-> None,      \* history: the file validation looked at
    opened        |-> None,      \* what the analyzer's capture handle decodes
    result        |-> None,      \* the VideoAnalysisResult
    raised        |-> "",        \* the exception raised inside the handler
    stage         |-> "",        \* the step that raised it
    status        |-> 0,         \* the HTTP status of the response, when sent
    body          |-> None,      \* the VideoAnalysisResponse
    cleaned       |-> FALSE,     \* history: cleanup_file was called
    unlink_failed |-> FALSE ]    \* history: its unlink raised

\* The API has received nothing.
NoRequests ==
  /\ workers = [w \in Workers |-> NoRequest]
  /\ fs = [p \in Paths |-> None]
  /\ clock = 0
  /\ db = << >>
  /\ metrics = NoMetrics
  /\ responses = << >>
  /\ served = 0
  /\ has_magic = TRUE

\* -------------------------------------------------------------------- Init
Init ==
  /\ args \in ArgSets
  /\ analyzer = __init__(args)
  /\ pc = "ready"
  /\ run = ProcessLocals(0)
  /\ cap = NewCapture
  /\ result = None
  /\ error = ""
  /\ observed = NoObservations
  /\ NoCalls
  /\ NoRequests

\* ------------------------------------------------------------------ analyze
\* lines 102-105: cv2.VideoCapture(path) opened the source
AnalyzeOpen ==
  /\ pc = "ready"
  /\ cap' = [cap EXCEPT !.opened = TRUE, !.opens = @ + 1]
  /\ pc' = "try"
  /\ UNCHANGED <<args, analyzer, run, result, error, observed>>
  /\ UNCHANGED <<callVars, apiVars>>

\* Variant: the isOpened test sits inside the try block, so its error passes
\* through the except clause.
OpenCheckInsideTry == "except"

\* lines 104-107: the isOpened test stands before the try block, its raise
\* leaves analyze directly
OpenCheckExit == "raised"

\* lines 102-105: the source cannot be opened
AnalyzeOpenFails ==
  /\ pc = "ready"
  /\ error' = "InvalidVideoError"
  /\ pc' = OpenCheckExit
  /\ UNCHANGED <<args, analyzer, run, cap, result, observed>>
  /\ UNCHANGED <<callVars, apiVars>>

\* lines 137-145
ProcessStart ==
  /\ pc = "try"
  /\ \E total_frames \in MetaCounts : run' = ProcessLocals(total_frames)
  /\ pc' = "loop"
  /\ UNCHANGED <<args, analyzer, cap, result, error, observed>>
  /\ UNCHANGED <<callVars, apiVars>>

\* lines 148-175: cap.read() yields a frame; one pass of the loop body
ReadFrame ==
  /\ pc = "loop"
  /\ run.frame_count < MaxFrames
  /\ \E name \in FrameNames :
       LET counted == [run EXCEPT !.frame_count = @ + 1]
           sampled == [counted EXCEPT !.frames_analyzed = @ + 1]
       IN /\ cap' = Deliver(cap, name)
          /\ IF ~IsSampled(counted.frame_count, analyzer.frame_sample_rate)
             THEN /\ run' = counted
                  /\ UNCHANGED <<pc, observed>>
             ELSE IF PreprocessRaises(analyzer)
             THEN /\ run' = sampled
                  /\ pc' = "except"
                  /\ UNCHANGED observed
             ELSE LET processed_frame == PreprocessFrame(analyzer, name)
                      made == Comparison(analyzer, sampled, processed_frame)
                  IN /\ run' = CompareAndKeep(analyzer, sampled, processed_frame)
                     /\ observed' = IF made # None THEN Observe(observed, made[1])
                                    ELSE observed
                     /\ UNCHANGED pc
  /\ error' = IF pc' = "except" THEN "cv2.error" ELSE error
  /\ UNCHANGED <<args, analyzer, result>>
  /\ UNCHANGED <<callVars, apiVars>>

\* Variant: the loop goes on after ret = False (continue for break).
ContinueOnEnd == "loop"

\* lines 150-151: `if not ret: break` leaves the loop
BreakOnEnd == "finish"

\* lines 148-151: cap.read() returns ret = False at the end of the stream
ReadEnd ==
  /\ pc = "loop"
  /\ cap' = [cap EXCEPT !.eos = TRUE]
  /\ pc' = BreakOnEnd
  /\ UNCHANGED <<args, analyzer, run, result, error, observed>>
  /\ UNCHANGED <<callVars, apiVars>>

\* lines 148-151: cap.read() returns ret = False because a frame in the
\* middle of the stream does not decode (frames remain after it)
ReadDecodeFailure ==
  /\ pc = "loop"
  /\ run.frame_count < MaxFrames
  /\ cap' = [cap EXCEPT !.decode_failed = TRUE, !.eos = TRUE]
  /\ pc' = BreakOnEnd
  /\ UNCHANGED <<args, analyzer, run, result, error, observed>>
  /\ UNCHANGED <<callVars, apiVars>>

\* What cap.read() raises when the library fails under it.
ReadErrors == {"cv2.error", "MemoryError"}

\* line 148: the library raises while the next frame is read
ReadRaises ==
  /\ pc = "loop"
  /\ \E exc \in ReadErrors : error' = exc
  /\ pc' = "except"
  /\ UNCHANGED <<args, analyzer, run, cap, result, observed>>
  /\ UNCHANGED <<callVars, apiVars>>

\* lines 108-118 and 125: _process_video returns (lines 177-196), analyze
\* stamps the processing time, releases the handle and returns the result
AnalyzeReturn ==
  /\ pc = "finish"
  /\ \E processing_time \in 0..MaxTime :
       result' = Some([MakeResult(run) EXCEPT !.processing_time = processing_time])
  /\ cap' = Finally(cap, "return")
  /\ pc' = "done"
  /\ UNCHANGED <<args, analyzer, run, error, observed>>
  /\ UNCHANGED <<callVars, apiVars>>

\* Variant: the except clause lets the exception pass as it is.
ExceptReraises(exc) == exc

\* lines 120-122: `except Exception as e` raises VideoProcessingError for
\* whatever was raised inside the try block
ExceptClause(exc) == "VideoProcessingError"

\* lines 120-125: an exception inside the try block leaves analyze as
\* VideoProcessingError, after the handle is released
AnalyzeExcept ==
  /\ pc = "except"
  /\ error' = ExceptClause(error)
  /\ cap' = Finally(cap, "raise")
  /\ pc' = "raised"
  /\ UNCHANGED <<args, analyzer, run, result, observed>>
  /\ UNCHANGED <<callVars, apiVars>>

Next ==
  \/ AnalyzeOpen
  \/ AnalyzeOpenFails
  \/ ProcessStart
  \/ ReadFrame
  \/ ReadEnd
  \/ ReadDecodeFailure
  \/ ReadRaises
  \/ AnalyzeReturn
  \/ AnalyzeExcept

Spec == Init /\ [][Next]_<<vars, callVars, apiVars>>

\* The constructor arguments of the runs followed to their end: the default
\* configuration, a stride of 2, and a height that makes preprocessing raise.
LiveArgSets ==
  [ frame_sample_rate : {None, Some(2)},
    motion_threshold  : {None},
    processing_width  : {None},
    processing_height : {None, Some(-1)} ]

InitLive == Init /\ args \in LiveArgSets

\* analyze is one sequential pass with no suspension point: the step that is
\* possible is taken.
SpecLive == InitLive /\ [][Next]_<<vars, callVars, apiVars>> /\ WF_vars(Next)

\* ------------------------------------- two analyze() calls on one instance
\* Both calls run with a well-formed configuration.
CallArgSets ==
  [ frame_sample_rate : {Some(1), Some(2)},
    motion_threshold  : {None},
    processing_width  : {None},
    processing_height : {None} ]

\* Variant: the calls read through one capture handle.
HandleShared(i) == 1

\* line 102: each call opens a capture handle of its own
HandleOf(i) == i

\* Variant: the counters and the previous frame live on the instance, one
\* record for all calls.
ActivationShared(i) == 1

\* lines 137-143: the counters and the previous frame are locals of the call
ActivationOf(i) == i

\* lines 153-175: one pass of the loop body over a decoded frame
LoopBody(cfg, r, name) ==
  LET counted == [r EXCEPT !.frame_count = @ + 1]
      sampled == [counted EXCEPT !.frames_analyzed = @ + 1]
  IN IF ~IsSampled(counted.frame_count, cfg.frame_sample_rate)
     THEN counted
     ELSE CompareAndKeep(cfg, sampled, PreprocessFrame(cfg, name))

\* lines 148-175: the loop run to the end of a video, nothing else running
RECURSIVE ProcessFrames(_, _, _)
ProcessFrames(cfg, r, video) ==
  IF video = << >> THEN r
  ELSE ProcessFrames(cfg, LoopBody(cfg, r, Head(video)), Tail(video))

\* lines 127-196: what _process_video returns for a source when run alone
_process_video(cfg, source) ==
  MakeResult(ProcessFrames(cfg, ProcessLocals(source.meta), source.video))

InitCalls ==
  /\ args \in CallArgSets
  /\ analyzer = __init__(args)
  /\ pc = "ready"
  /\ run = ProcessLocals(0)
  /\ cap = NewCapture
  /\ result = None
  /\ error = ""
  /\ observed = NoObservations
  /\ \E s \in [Calls -> Sources] :
       calls = [i \in Calls |-> [NoCall EXCEPT !.source = s[i]]]
  /\ caps = [i \in Calls |-> NoHandle]
  /\ frames = [i \in Calls |-> ProcessLocals(0)]
  /\ details = NoDetails
  /\ NoRequests

\* lines 102-107: call i opens its source
CallOpen(i) ==
  /\ calls[i].pc = "ready"
  /\ caps' = [caps EXCEPT ![HandleOf(i)] =
                [opened |-> TRUE, source |-> calls[i].source, pos |-> 0]]
  /\ calls' = [calls EXCEPT ![i].pc = "try"]
  /\ UNCHANGED <<frames, vars>>
  /\ UNCHANGED <<details, apiVars>>

\* lines 137-145: call i enters _process_video
CallStart(i) ==
  /\ calls[i].pc = "try"
  /\ frames' = [frames EXCEPT ![ActivationOf(i)] =
                  ProcessLocals(caps[HandleOf(i)].source.meta)]
  /\ calls' = [calls EXCEPT ![i].pc = "loop"]
  /\ UNCHANGED <<caps, vars>>
  /\ UNCHANGED <<details, apiVars>>

\* lines 148-175: call i reads from its handle: a frame and one pass of the
\* loop body, or the end of the stream
CallRead(i) ==
  /\ calls[i].pc = "loop"
  /\ LET h == caps[HandleOf(i)]
     IN IF h.opened /\ h.pos < Len(h.source.video)
        THEN /\ caps' = [caps EXCEPT ![HandleOf(i)].pos = @ + 1]
             /\ frames' = [frames EXCEPT ![ActivationOf(i)] =
                             LoopBody(analyzer, @, h.source.video[h.pos + 1])]
             /\ calls' = [calls EXCEPT ![i].overlapped =
                            @ \/ \E j \in Calls \ {i} : calls[j].pc = "loop"]
        ELSE /\ calls' = [calls EXCEPT ![i].pc = "finish"]
             /\ UNCHANGED <<caps, frames>>
  /\ UNCHANGED vars
  /\ UNCHANGED <<details, apiVars>>

\* lines 108-118, 125 and 177-196: call i builds its result, stamps the
\* processing time, releases its handle and returns
CallReturn(i) ==
  /\ calls[i].pc = "finish"
  /\ \E processing_time \in 0..MaxTime :
       calls' = [calls EXCEPT
                  ![i].pc = "done",
                  ![i].result = Some([MakeResult(frames[ActivationOf(i)])
                                        EXCEPT !.processing_time = processing_time])]
  /\ caps' = [caps EXCEPT ![HandleOf(i)].opened = FALSE]
  /\ UNCHANGED <<frames, vars>>
  /\ UNCHANGED <<details, apiVars>>

NextCalls ==
  \E i \in Calls :
    \/ CallOpen(i)
    \/ CallStart(i)
    \/ CallRead(i)
    \/ CallReturn(i)

SpecCalls == InitCalls /\ [][NextCalls]_<<vars, callVars, apiVars>>

\* ------------------------------------------------------ analyze_with_details
\* cap.get(prop) of a handle: the value of the container while the handle is
\* open, 0 from a handle that is not open (never opened, or released).
CapGet(h, value) == IF h.opened THEN value ELSE 0

\* The handle after a property was read from it.
AfterGet(h) ==
  IF h.releases > 0 THEN [h EXCEPT !.stale_reads = @ + 1] ELSE h

\* round(x, 2) of a rational x >= 0, in hundredths (ties to even)
Round2(x) ==
  LET q == (x.num * 100) \div x.den
      r == (x.num * 100) % x.den
  IN IF 2 * r > x.den THEN q + 1
     ELSE IF 2 * r = x.den THEN q + (q % 2)
     ELSE q

\* line 278: result.total_frames / fps if fps > 0 else 0
Duration(total_frames, fps) ==
  IF fps > 0 THEN Rat(total_frames, fps) ELSE RatZero

InitDetails ==
  /\ args \in CallArgSets
  /\ analyzer = __init__(args)
  /\ pc = "ready"
  /\ run = ProcessLocals(0)
  /\ cap = NewCapture
  /\ result = None
  /\ error = ""
  /\ observed = NoObservations
  /\ calls = [i \in Calls |-> NoCall]
  /\ caps = [i \in Calls |-> NoHandle]
  /\ frames = [i \in Calls |-> ProcessLocals(0)]
  /\ \E s \in Sources, f \in FpsValues :
       details = [NoDetails EXCEPT !.source = s, !.fps_of = f]
  /\ NoRequests

\* line 274 (analyze, lines 84-125): the analysis runs to its end on a handle
\* of its own, which its finally clause releases
DetailsAnalyze ==
  /\ details.pc = "ready"
  /\ \E processing_time \in 0..MaxTime :
       details' = [details EXCEPT
         !.pc = "analyzed",
         !.handles = Append(@, Release([NoDetailHandle EXCEPT !.opened = TRUE,
                                                              !.opens = 1])),
         !.result = Some([_process_video(analyzer, details.source)
                            EXCEPT !.processing_time = processing_time])]
  /\ UNCHANGED <<calls, caps, frames, vars, apiVars>>

\* line 274: analyze raises, InvalidVideoError for a source it cannot open
\* (its handle is not released, line 105 stands before the try block),
\* VideoProcessingError after it opened and released the source
DetailsAnalyzeRaises ==
  /\ details.pc = "ready"
  /\ \E exc \in {"InvalidVideoError", "VideoProcessingError"} :
       details' = [details EXCEPT
         !.pc = "raised",
         !.error = exc,
         !.handles = Append(@, IF exc = "InvalidVideoError"
                               THEN NoDetailHandle
                               ELSE Release([NoDetailHandle EXCEPT !.opened = TRUE,
                                                                   !.opens = 1]))]
  /\ UNCHANGED <<calls, caps, frames, vars, apiVars>>

\* line 276: a second handle on the same path; whether it opened is not tested
DetailsOpen ==
  /\ details.pc = "analyzed"
  /\ \E opened \in BOOLEAN :
       details' = [details EXCEPT
         !.pc = "opened",
         !.handles = Append(@, [NoDetailHandle EXCEPT
                                  !.opened = opened,
                                  !.opens = IF opened THEN 1 ELSE 0])]
  /\ UNCHANGED <<calls, caps, frames, vars, apiVars>>

\* lines 277-278
DetailsGetFps ==
  /\ details.pc = "opened"
  /\ LET h   == details.handles[2]
         fps == CapGet(h, details.fps_of)
     IN details' = [details EXCEPT
          !.pc = "measured",
          !.handles[2] = AfterGet(h),
          !.fps = fps,
          !.duration = Duration(details.result[1].total_frames, fps)]
  /\ UNCHANGED <<calls, caps, frames, vars, apiVars>>

\* line 280
DetailsRelease ==
  /\ details.pc = "measured"
  /\ details' = [details EXCEPT !.pc = "released",
                                !.handles[2] = Release(@)]
  /\ UNCHANGED <<calls, caps, frames, vars, apiVars>>

\* lines 282-290: the dictionary is built after the release; its resolution
\* entry reads the frame width and the frame height from the handle
DetailsReturn ==
  /\ details.pc = "released"
  /\ LET h      == details.handles[2]
         width  == CapGet(h, NativeW)
         height == CapGet(AfterGet(h), NativeH)
     IN details' = [details EXCEPT
          !.pc = "done",
          !.handles[2] = AfterGet(AfterGet(h)),
          !.info = Some([ result     |-> details.result[1],
                          video_info |->
                            [ fps              |-> Round2(Rat(details.fps, 1)),
                              duration_seconds |-> Round2(details.duration),
                              resolution       |-> <<width, height>> ] ])]
  /\ UNCHANGED <<calls, caps, frames, vars, apiVars>>

NextDetails ==
  \/ DetailsAnalyze
  \/ DetailsAnalyzeRaises
  \/ DetailsOpen
  \/ DetailsGetFps
  \/ DetailsRelease
  \/ DetailsReturn

SpecDetails == InitDetails /\ [][NextDetails]_<<vars, callVars, apiVars>>

\* ------------------------------------------------------------ validators.py
\* lines 116-130
validate_file_exists(files, file_path) ==
  IF files[file_path] = None THEN "InvalidVideoError" ELSE ""

\* lines 53-70
validate_file_size(files, file_path) ==
  IF files[file_path][1].size > max_size_bytes THEN "VideoTooLargeError" ELSE ""

\* lines 72-88
validate_file_extension(file_path) ==
  IF Lower(Suffix(file_path)) \notin ALLOWED_EXTENSIONS
  THEN "UnsupportedFormatError" ELSE ""

\* lines 104-112: the body of the try block of validate_mime_type
MimeTypeCheck(files, file_path) ==
  IF files[file_path][1].mime \notin ALLOWED_MIME_TYPES
  THEN "UnsupportedFormatError" ELSE ""

\* lines 113-114: except Exception logs whatever the try block raised and
\* drops it
ExceptException(raised) == ""

\* lines 90-114
validate_mime_type(magic, files, file_path) ==
  IF ~magic THEN "" ELSE ExceptException(MimeTypeCheck(files, file_path))

\* Variant: the extension is checked before the size.
validateExtensionFirst(magic, files, file_path) ==
  IF validate_file_exists(files, file_path) # ""
  THEN validate_file_exists(files, file_path)
  ELSE IF validate_file_extension(file_path) # ""
  THEN validate_file_extension(file_path)
  ELSE IF validate_file_size(files, file_path) # ""
  THEN validate_file_size(files, file_path)
  ELSE validate_mime_type(magic, files, file_path)

\* lines 132-151: the checks in order, the first exception leaves validate
validate(magic, files, file_path) ==
  IF validate_file_exists(files, file_path) # ""
  THEN validate_file_exists(files, file_path)
  ELSE IF validate_file_size(files, file_path) # ""
  THEN validate_file_size(files, file_path)
  ELSE IF validate_file_extension(file_path) # ""
  THEN validate_file_extension(file_path)
  ELSE validate_mime_type(magic, files, file_path)

\* ------------------------------------------------------------- repository.py
\* Variant: every row gets the same key.
NextIdConstant(rows) == 1

\* models.py line 29: the autoincrement primary key (rows are never deleted
\* through the API)
NextId(rows) == Len(rows) + 1

\* Variant: the row keeps the default status of the table ("pending").
createPending(rows, filename, motion_detected) ==
  Append(rows, [ id              |-> NextId(rows),
                 filename        |-> filename,
                 motion_detected |-> motion_detected,
                 status          |-> "pending" ])

\* repository.py lines 30-71
create(rows, filename, motion_detected) ==
  Append(rows, [ id              |-> NextId(rows),
                 filename        |-> filename,
                 motion_detected |-> motion_detected,
                 status          |-> "completed" ])

\* repository.py lines 73-83: .first() of the rows with this id
get_by_id(rows, analysis_id) ==
  LET hits == { k \in 1..Len(rows) : rows[k].id = analysis_id }
  IN IF hits = {} THEN None
     ELSE Some(rows[CHOOSE k \in hits : \A m \in hits : k <= m])

\* repository.py lines 85-107: newest first (created_at does not decrease
\* with insertion), then offset and limit
get_all(rows, skip, limit) ==
  LET n == Len(rows)
      newest_first == [k \in 1..n |-> rows[n + 1 - k]]
  IN SubSeq(newest_first, skip + 1, IF skip + limit < n THEN skip + limit ELSE n)

\* endpoints.py lines 160-169 and 274-283: the response made of a row
VideoAnalysisResponse(row) ==
  [ id              |-> row.id,
    filename        |-> row.filename,
    motion_detected |-> row.motion_detected,
    status          |-> row.status ]

\* endpoints.py lines 245-283
get_analysis(rows, analysis_id) ==
  IF get_by_id(rows, analysis_id) = None
  THEN [ status_code |-> 404, body |-> None ]
  ELSE [ status_code |-> 200,
         body |-> Some(VideoAnalysisResponse(get_by_id(rows, analysis_id)[1])) ]

\* endpoints.py line 198: the default page size of the listing
DEFAULT_LIMIT == 100

\* endpoints.py lines 195-233, with the default skip = 0
get_analyses(rows, limit) ==
  [k \in 1..Len(get_all(rows, 0, limit)) |->
     VideoAnalysisResponse(get_all(rows, 0, limit)[k])]

\* ------------------------------------------------------------- metrics.py
\* lines 52-61
record_processing_error(m, error_type) ==
  [m EXCEPT !.videos_processing_errors_total[error_type] = @ + 1]

\* Variant: record_video_processed is left out.
RecordMotionOnly(m, motion_detected) ==
  [m EXCEPT !.videos_motion_detected_total = IF motion_detected THEN @ + 1 ELSE @]

\* endpoints.py lines 151-155: record_video_processed, and
\* record_motion_detected when motion was found
RecordProcessed(m, motion_detected) ==
  [m EXCEPT !.videos_processed_total = @ + 1,
            !.videos_motion_detected_total = IF motion_detected THEN @ + 1 ELSE @]

\* ------------------------------------------------- endpoints.analyze_video
\* Variant: the application-wide handler of main.py answers (400 for every
\* VisionGuardException).
ValidationStatusOfAppHandler(exc) == 400

\* lines 85-122: the except clauses around validate_video_file
ValidationStatus(exc) ==
  CASE exc = "VideoTooLargeError"     -> 413
    [] exc = "UnsupportedFormatError" -> 415
    [] exc = "InvalidVideoError"      -> 422
    [] OTHER                          -> 500

\* The call after `raise HTTPException(status)` for the exception exc raised
\* in the step `stage`: control passes to the finally clause.
Raise(req, exc, stage, status) ==
  [req EXCEPT !.raised = exc, !.stage = stage, !.status = status, !.pc = "finally"]

\* Variant: an InvalidVideoError that reaches the outer except is answered
\* like the one of the validation.
OuterExceptAsValidation(exc) ==
  IF exc = "InvalidVideoError"
  THEN [status |-> 422, label |-> "InvalidVideoError"]
  ELSE [status |-> 500, label |-> "UnexpectedError"]

\* lines 173-182: `except Exception` answers 500 and counts the error as
\* UnexpectedError, whatever was raised
OuterExcept(exc) == [status |-> 500, label |-> "UnexpectedError"]

\* Variant: the file is removed at the end of the success path only.
CleanupOnSuccessOnly(files, req, unlink_ok) ==
  IF req.status = 200 /\ req.video_path # None /\ unlink_ok
  THEN [files EXCEPT ![req.video_path[1]] = None]
  ELSE files

\* lines 183-186 and file_utils.py lines 79-91: the upload directory after
\* the finally clause; a failing unlink is logged and dropped
FinallyCleanup(files, req, unlink_ok) ==
  IF req.video_path # None /\ files[req.video_path[1]] # None /\ unlink_ok
  THEN [files EXCEPT ![req.video_path[1]] = None]
  ELSE files

InitApi ==
  /\ args = [ frame_sample_rate |-> None, motion_threshold |-> None,
              processing_width |-> None, processing_height |-> None ]
  /\ analyzer = __init__(args)
  /\ pc = "ready"
  /\ run = ProcessLocals(0)
  /\ cap = NewCapture
  /\ result = None
  /\ error = ""
  /\ observed = NoObservations
  /\ NoCalls
  /\ workers = [w \in Workers |-> NoRequest]
  /\ fs = [p \in Paths |-> None]
  /\ clock = 0
  /\ db = << >>
  /\ metrics = NoMetrics
  /\ responses = << >>
  /\ served = 0
  /\ has_magic \in BOOLEAN

\* The clock passes to the next millisecond.  Its value is read by
\* save_upload_file only: a millisecond in which nothing was saved is not
\* told apart from the next one, and the clock rests once the last request
\* has arrived.
Tick ==
  /\ clock < MaxClock
  /\ served < MaxRequests
  /\ \E p \in Paths : p.timestamp = clock /\ fs[p] # None
  /\ clock' = clock + 1
  /\ UNCHANGED <<workers, fs, db, metrics, responses, served, has_magic>>
  /\ UNCHANGED <<vars, callVars>>

\* lines 73-80 and file_utils.py lines 28-61: a request arrives and its file
\* is saved under the upload directory (or the save raises, after which the
\* partial file is removed and the outer except answers 500)
ApiReceive(w) ==
  /\ workers[w].pc \in {"idle", "done"}
  /\ served < MaxRequests
  /\ served' = served + 1
  /\ \E u \in Uploads, saved \in BOOLEAN :
       LET rid       == served + 1
           file_path == UploadPath(clock, u.filename)
           req       == [NoRequest EXCEPT !.rid = rid, !.filename = Some(u.filename)]
       IN IF saved
          THEN /\ fs' = [fs EXCEPT ![file_path] = Some(StoredFile(rid, u))]
               /\ workers' = [workers EXCEPT ![w] =
                               [req EXCEPT !.video_path = Some(file_path),
                                           !.pc = "validate"]]
               /\ UNCHANGED metrics
          ELSE /\ fs' = [fs EXCEPT ![file_path] = None]
               /\ workers' = [workers EXCEPT ![w] = Raise(req, "OSError", "save", OuterExcept("OSError").status)]
               /\ metrics' = record_processing_error(
                               metrics, OuterExcept("OSError").label)
  /\ UNCHANGED <<clock, db, responses, has_magic>>
  /\ UNCHANGED <<vars, callVars>>

\* lines 82-122: validate_video_file and the except clauses around it
ApiValidate(w) ==
  /\ workers[w].pc = "validate"
  /\ LET req == [workers[w] EXCEPT !.validated = fs[workers[w].video_path[1]]]
         exc == validate(has_magic, fs, workers[w].video_path[1])
     IN IF exc = ""
        THEN /\ workers' = [workers EXCEPT ![w] = [req EXCEPT !.pc = "analyze"]]
             /\ UNCHANGED metrics
        ELSE /\ workers' = [workers EXCEPT ![w] =
                             Raise(req, exc, "validate", ValidationStatus(exc))]
             /\ metrics' = record_processing_error(metrics, exc)
  /\ UNCHANGED <<fs, clock, db, responses, served, has_magic>>
  /\ UNCHANGED <<vars, callVars>>

\* lines 124-128 and video_analyzer.py lines 102-105: the analyzer opens the
\* file; InvalidVideoError, which no clause of the inner try names, reaches
\* the outer except (lines 173-182)
ApiAnalyzeOpen(w) ==
  /\ workers[w].pc = "analyze"
  /\ LET file == fs[workers[w].video_path[1]]
     IN IF file = None \/ file[1].content = "text"
        THEN /\ workers' = [workers EXCEPT ![w] =
                             Raise(@, "InvalidVideoError", "analyze",
                                   OuterExcept("InvalidVideoError").status)]
             /\ metrics' = record_processing_error(
                             metrics, OuterExcept("InvalidVideoError").label)
        ELSE /\ workers' = [workers EXCEPT ![w].opened = Some(file[1].content),
                                           ![w].pc = "analysing"]
             /\ UNCHANGED metrics
  /\ UNCHANGED <<fs, clock, db, responses, served, has_magic>>
  /\ UNCHANGED <<vars, callVars>>

\* lines 126-138 and video_analyzer.py lines 107-125: the analysis runs to
\* its result or to VideoProcessingError
ApiAnalyzeRun(w) ==
  /\ workers[w].pc = "analysing"
  /\ IF workers[w].opened[1] = "corrupt"
     THEN /\ workers' = [workers EXCEPT ![w] =
                          Raise(@, "VideoProcessingError", "analyze", 500)]
          /\ metrics' = record_processing_error(metrics, "VideoProcessingError")
     ELSE /\ workers' = [workers EXCEPT
                          ![w].result = Some([motion_detected |->
                                                workers[w].opened[1] = "motion"]),
                          ![w].pc = "store"]
          /\ UNCHANGED metrics
  /\ UNCHANGED <<fs, clock, db, responses, served, has_magic>>
  /\ UNCHANGED <<vars, callVars>>

\* lines 140-169: the row is committed, the metrics are updated and the
\* response is built; or the commit raises, the session is rolled back and
\* the outer except answers 500
ApiStore(w) ==
  /\ workers[w].pc = "store"
  /\ \E committed \in BOOLEAN :
       IF committed
       THEN LET rows == create(db, workers[w].filename[1],
                              workers[w].result[1].motion_detected)
                row  == rows[Len(rows)]
            IN /\ db' = rows
               /\ metrics' = RecordProcessed(metrics, row.motion_detected)
               /\ workers' = [workers EXCEPT
                               ![w].status = 200,
                               ![w].body = Some(VideoAnalysisResponse(row)),
                               ![w].pc = "finally"]
       ELSE /\ workers' = [workers EXCEPT ![w] =
                            Raise(@, "SQLAlchemyError", "store",
                                  OuterExcept("SQLAlchemyError").status)]
            /\ metrics' = record_processing_error(
                            metrics, OuterExcept("SQLAlchemyError").label)
            /\ UNCHANGED db
  /\ UNCHANGED <<fs, clock, responses, served, has_magic>>
  /\ UNCHANGED <<vars, callVars>>

\* lines 183-186: the finally clause, then the response leaves
ApiFinally(w) ==
  /\ workers[w].pc = "finally"
  /\ \E unlink_ok \in BOOLEAN :
       /\ fs' = FinallyCleanup(fs, workers[w], unlink_ok)
       /\ workers' = [workers EXCEPT
                       ![w].pc = "done",
                       ![w].cleaned = workers[w].video_path # None,
                       ![w].unlink_failed =
                          /\ workers[w].video_path # None
                          /\ fs[workers[w].video_path[1]] # None
                          /\ ~unlink_ok]
  /\ responses' = IF workers[w].status = 200
                  THEN Append(responses, workers[w].body[1])
                  ELSE responses
  /\ UNCHANGED <<clock, db, metrics, served, has_magic>>
  /\ UNCHANGED <<vars, callVars>>

NextApi ==
  \/ Tick
  \/ \E w \in Workers :
       \/ ApiReceive(w)
       \/ ApiValidate(w)
       \/ ApiAnalyzeOpen(w)
       \/ ApiAnalyzeRun(w)
       \/ ApiStore(w)
       \/ ApiFinally(w)

SpecApi == InitApi /\ [][NextApi]_<<vars, callVars, apiVars>>

\* ================================================================== claims
Returned == result # None
Res == result[1]
\* the call is inside _process_video or has returned from it
InRun == pc \in {"loop", "finish", "done"}

ValidStride == analyzer.frame_sample_rate > 0
ValidThreshold == analyzer.motion_threshold > 0 /\ analyzer.motion_threshold < 100
ValidResolution == analyzer.processing_width > 0 /\ analyzer.processing_height > 0

Max(a, b) == IF a >= b THEN a ELSE b

\* C1: for a positive sample stride S, after D frames were decoded
\* frames_analyzed = floor(D / S) (frames counted from 1, analysed when the
\* count is a multiple of S), in every state of the run and in the result.
C1_FramesAnalyzedIsFloor ==
  ValidStride =>
    /\ InRun => run.frames_analyzed = cap.decoded \div analyzer.frame_sample_rate
    /\ Returned => Res.frames_analyzed = cap.decoded \div analyzer.frame_sample_rate

\* C1 witness: 5 frames at stride 2 gave 2 analysed frames
C1_Witness ==
  /\ Returned
  /\ analyzer.frame_sample_rate = 2
  /\ cap.decoded = 5
  /\ Res.frames_analyzed = 2

\* C2: the result has motion_percentage = 100 * flagged / frames_analyzed
\* (0 when nothing was analysed) and motion_detected iff that is > 10.
C2_PercentageAndDecision ==
  Returned =>
    /\ Res.motion_percentage =
         IF Res.frames_analyzed > 0
         THEN Rat(100 * observed.flagged, Res.frames_analyzed)
         ELSE RatZero
    /\ Res.motion_detected <=> (100 * observed.flagged > 10 * Res.frames_analyzed)

\* C2 witness: exactly 10% of the analysed frames flagged, no motion reported
C2_Witness ==
  /\ Returned
  /\ Res.frames_analyzed = 10
  /\ observed.flagged = 1
  /\ ~Res.motion_detected

\* C3 (as claimed): after a decode failure in the middle of the stream
\* (frames were decoded before it and frames remain after it), analyze
\* returns no normal result.
C3_DecodeFailureIsAnError ==
  (cap.decode_failed /\ cap.decoded > 0) => ~Returned

\* C4: an opened handle is released exactly once on every exit of analyze,
\* never twice, and is not open once analyze has returned or raised.
C4_ReleasedExactlyOnce ==
  /\ cap.releases <= cap.opens
  /\ (pc \in {"done", "raised"} /\ cap.opens = 1) =>
       (cap.releases = 1 /\ ~cap.opened)

\* C4 witness: analyze raised after frames were read, the handle released
C4_Witness ==
  /\ pc = "raised"
  /\ error = "VideoProcessingError"
  /\ cap.decoded > 0
  /\ cap.releases = 1

\* C5 (as claimed): no analyzer holds a malformed configuration value.
C5_ConfigurationIsValid ==
  ValidStride /\ ValidThreshold /\ ValidResolution

\* C6 (as claimed): when every comparison of at least two analysed frames
\* is flagged, motion_detected = true and motion_percentage = 100.
C6_AllFlaggedIsHundred ==
  (Returned /\ Res.frames_analyzed >= 2 /\ observed.flagged = observed.comparisons) =>
    (Res.motion_detected /\ Res.motion_percentage = Rat(100, 1))

\* C6 (amended): when every comparison of n >= 2 analysed frames is flagged,
\* motion_detected = true and motion_percentage = 100 * (n - 1) / n.
C6_AllFlaggedIsAllButFirst ==
  (Returned /\ Res.frames_analyzed >= 2 /\ observed.flagged = observed.comparisons) =>
    /\ Res.motion_detected
    /\ Res.motion_percentage =
         Rat(100 * (Res.frames_analyzed - 1), Res.frames_analyzed)

\* C6 witness: three analysed frames, both comparisons flagged
C6_Witness ==
  /\ Returned
  /\ ValidThreshold
  /\ Res.frames_analyzed = 3
  /\ observed.comparisons = 2
  /\ observed.flagged = 2

\* C7: when all decoded frames are identical, with a valid stride and a
\* valid threshold, no comparison is flagged and the result reports no
\* motion, motion_percentage 0 and avg_motion_intensity 0.
C7_StaticVideoHasNoMotion ==
  (ValidStride /\ ValidThreshold /\ cap.video # Some("mixed")) =>
    /\ observed.flagged = 0
    /\ run.motion_frames = 0
    /\ Returned =>
         /\ ~Res.motion_detected
         /\ Res.motion_percentage = RatZero
         /\ Res.avg_motion_intensity = RatZero

\* C7 witness: a static video of 10 frames at stride 2, 4 comparisons made
C7_Witness ==
  /\ Returned
  /\ ValidThreshold
  /\ cap.video = Some("static")
  /\ cap.decoded = 10
  /\ analyzer.frame_sample_rate = 2
  /\ Res.frames_analyzed = 5
  /\ observed.comparisons = 4

\* C8: in every result 0 <= motion_percentage <= 100, and it is 0 when no
\* frame was analysed.
C8_PercentageInRange ==
  Returned =>
    /\ Res.motion_percentage.den > 0
    /\ Res.motion_percentage.num >= 0
    /\ Res.motion_percentage.num <= 100 * Res.motion_percentage.den
    /\ Res.frames_analyzed = 0 => Res.motion_percentage = RatZero

\* C8 witness: a stream shorter than the stride, nothing analysed
C8_Witness ==
  /\ Returned
  /\ cap.decoded > 0
  /\ Res.frames_analyzed = 0
  /\ Res.motion_percentage = RatZero

\* C9: the first analysed frame is never compared: the comparisons made
\* number max(0, frames_analyzed - 1), and motion_frames <= frames_analyzed - 1
\* once a frame was analysed.
C9_FirstFrameNotCompared ==
  InRun =>
    /\ observed.comparisons = Max(0, run.frames_analyzed - 1)
    /\ run.motion_frames = observed.flagged
    /\ run.frames_analyzed >= 1 => run.motion_frames <= run.frames_analyzed - 1

\* C9 witness: every comparison of 10 analysed frames flagged, 9 of 10
C9_Witness ==
  /\ Returned
  /\ run.frames_analyzed = 10
  /\ run.motion_frames = 9
  /\ Res.motion_percentage = Rat(90, 1)

\* C10: avg_motion_intensity is the summed intensity of the flagged
\* comparisons over their number (0 when none is flagged); an unflagged
\* comparison adds nothing to the running total.
C10_AverageOverFlagged ==
  /\ InRun => run.total_motion_intensity = observed.flagged_intensity
  /\ Returned =>
       Res.avg_motion_intensity =
         IF observed.flagged > 0
         THEN RatDivInt(observed.flagged_intensity, observed.flagged)
         ELSE RatZero

\* C10 witness: flagged comparisons and an unflagged one of intensity > 0
C10_Witness ==
  /\ Returned
  /\ observed.flagged = 2
  /\ observed.unflagged_nonzero
  /\ Res.avg_motion_intensity # RatZero

\* C11: when the source cannot be opened analyze raises InvalidVideoError
\* at once: no frame is read, _process_video is not entered, no result is
\* returned and the error is not turned into VideoProcessingError.
C11_OpenFailureIsInvalidVideoError ==
  /\ error = "InvalidVideoError" =>
       /\ pc = "raised"
       /\ result = None
       /\ cap.decoded = 0
       /\ run = ProcessLocals(0)
  /\ (cap.opens = 0 /\ pc # "ready") => (pc = "raised" /\ error = "InvalidVideoError")

\* C11 witness: analyze left with InvalidVideoError on a source never opened
C11_Witness ==
  /\ pc = "raised"
  /\ error = "InvalidVideoError"
  /\ cap.opens = 0
  /\ result = None

\* C14 (as claimed): in every result frames_analyzed <= total_frames, the
\* frame count of the container metadata.
C14_AnalyzedAtMostTotal ==
  Returned => Res.frames_analyzed <= Res.total_frames

\* C14 (amended): in every result frames_analyzed <= the number of frames
\* decoded, and total_frames is the metadata count as reported, whatever
\* its relation to the frames decoded.
C14_AnalyzedAtMostDecoded ==
  /\ InRun => run.frames_analyzed <= cap.decoded
  /\ Returned =>
       /\ Res.frames_analyzed <= cap.decoded
       /\ Res.total_frames = run.total_frames
       /\ Res.total_frames \in MetaCounts

\* C14 witness: the metadata report 0 frames, 2 frames analysed of 2 decoded
C14_Witness ==
  /\ Returned
  /\ Res.total_frames = 0
  /\ cap.decoded = 2
  /\ Res.frames_analyzed = 2

\* C15 (as claimed): every value passed to the constructor is the value the
\* analyzer holds.
C15_ExplicitValuesAreHeld ==
  /\ args.frame_sample_rate # None => analyzer.frame_sample_rate = args.frame_sample_rate[1]
  /\ args.motion_threshold # None => analyzer.motion_threshold = args.motion_threshold[1]
  /\ args.processing_width # None => analyzer.processing_width = args.processing_width[1]
  /\ args.processing_height # None => analyzer.processing_height = args.processing_height[1]

\* The result without its wall-clock field.
SansTime(r) == [r EXCEPT !.processing_time = 0]

BothDone == \A i \in Calls : calls[i].pc = "done"

C13_CallsAreIndependent ==
  \A i \in Calls :
    calls[i].pc = "done" =>
      SansTime(calls[i].result[1]) = _process_video(analyzer, calls[i].source)

\* C13 witness: two calls on different sources whose steps interleaved, one
\* reporting motion and the other none
C13_Witness ==
  /\ BothDone
  /\ calls[1].overlapped /\ calls[2].overlapped
  /\ calls[1].source.video # calls[2].source.video
  /\ calls[1].result[1].motion_detected
  /\ ~calls[2].result[1].motion_detected
  /\ calls[2].result[1].frames_analyzed >= 2

\* The request of worker w has saved its file and has not reached the
\* finally clause.
InFlight(w) == workers[w].pc \in {"validate", "analyze", "analysing", "store"}

\* The file the request of worker w saved is in the upload directory.
OwnFileExists(w) ==
  /\ workers[w].video_path # None
  /\ fs[workers[w].video_path[1]] # None
  /\ fs[workers[w].video_path[1]][1].writer = workers[w].rid

\* C16 (as claimed): after analyze_video finished, on every exit path, the
\* file the request saved no longer exists; cleanup_file is not called
\* before the analysis has finished.
C16_SavedFileIsGoneAfterFinish ==
  \A w \in Workers :
    /\ workers[w].pc = "done" => ~OwnFileExists(w)
    /\ InFlight(w) => ~workers[w].cleaned

\* C16 (amended): after analyze_video finished, on every exit path,
\* cleanup_file was called on the saved file, after the analysis and not
\* before, and the file no longer exists unless its unlink raised.
C16_SavedFileIsGoneUnlessUnlinkFails ==
  \A w \in Workers :
    /\ (workers[w].pc = "done" /\ workers[w].video_path # None) => workers[w].cleaned
    /\ (workers[w].pc = "done" /\ ~workers[w].unlink_failed) => ~OwnFileExists(w)
    /\ InFlight(w) => ~workers[w].cleaned

\* C16 witness: a request answered 500 after VideoProcessingError, its file
\* removed by the finally clause
C16_Witness ==
  \E w \in Workers :
    /\ workers[w].pc = "done"
    /\ workers[w].raised = "VideoProcessingError"
    /\ workers[w].cleaned
    /\ ~workers[w].unlink_failed
    /\ fs[workers[w].video_path[1]] = None

\* C17 (as claimed): VideoTooLargeError gives 413, UnsupportedFormatError
\* 415, InvalidVideoError of the validation 422, VideoProcessingError 500,
\* and a successful analysis gives 200 with status "completed".
C17_SuccessfulAnalysisGives200 ==
  \A w \in Workers :
    workers[w].pc = "done" =>
      /\ workers[w].raised = "VideoTooLargeError" => workers[w].status = 413
      /\ workers[w].raised = "UnsupportedFormatError" => workers[w].status = 415
      /\ (workers[w].raised = "InvalidVideoError" /\ workers[w].stage = "validate")
           => workers[w].status = 422
      /\ workers[w].raised = "VideoProcessingError" => workers[w].status = 500
      /\ workers[w].result # None =>
           /\ workers[w].status = 200
           /\ workers[w].body # None
           /\ workers[w].body[1].status = "completed"

\* C17 (amended): the same statuses for the failures, and a successful
\* analysis gives 200 with status "completed" when its row is stored, 500
\* when storing it raises.
C17_StatusOfEachOutcome ==
  \A w \in Workers :
    workers[w].pc = "done" =>
      /\ workers[w].raised = "VideoTooLargeError" => workers[w].status = 413
      /\ workers[w].raised = "UnsupportedFormatError" => workers[w].status = 415
      /\ (workers[w].raised = "InvalidVideoError" /\ workers[w].stage = "validate")
           => workers[w].status = 422
      /\ workers[w].raised = "VideoProcessingError" => workers[w].status = 500
      /\ (workers[w].result # None /\ workers[w].raised = "") =>
           /\ workers[w].status = 200
           /\ workers[w].body # None
           /\ workers[w].body[1].status = "completed"
      /\ (workers[w].result # None /\ workers[w].raised # "") =>
           (workers[w].stage = "store" /\ workers[w].status = 500)
      /\ workers[w].status = 200 => (workers[w].result # None /\ workers[w].raised = "")

\* C17 witness: one request answered 413, another 200
C17_Witness ==
  /\ workers[1].pc = "done"
  /\ workers[1].raised = "VideoTooLargeError"
  /\ workers[1].status = 413
  /\ workers[2].pc = "done"
  /\ workers[2].status = 200
  /\ workers[2].body[1].status = "completed"

\* C18 (as claimed): with the MIME detection available, a file with an
\* allowed extension and size whose detected MIME type is not allowed is
\* rejected by the validation with UnsupportedFormatError.
C18_DisallowedMimeIsRejected ==
  \A w \in Workers :
    ( /\ has_magic
      /\ workers[w].validated # None
      /\ workers[w].validated[1].size <= max_size_bytes
      /\ Lower(Suffix(workers[w].video_path[1])) \in ALLOWED_EXTENSIONS
      /\ workers[w].validated[1].mime \notin ALLOWED_MIME_TYPES )
    => workers[w].raised = "UnsupportedFormatError"

\* C19: the ids of the 200 responses are distinct, each identifies exactly
\* one stored row, get_analysis of it returns the id, filename and
\* motion_detected of the response, and the listing contains it.
C19_IdsIdentifyStoredRecords ==
  /\ \A i, j \in 1..Len(responses) : i # j => responses[i].id # responses[j].id
  /\ \A i \in 1..Len(responses) :
       /\ Cardinality({ k \in 1..Len(db) : db[k].id = responses[i].id }) = 1
       /\ get_analysis(db, responses[i].id).status_code = 200
       /\ get_analysis(db, responses[i].id).body[1].id = responses[i].id
       /\ get_analysis(db, responses[i].id).body[1].filename = responses[i].filename
       /\ get_analysis(db, responses[i].id).body[1].motion_detected =
            responses[i].motion_detected
       /\ \E k \in 1..Len(get_analyses(db, DEFAULT_LIMIT)) :
            get_analyses(db, DEFAULT_LIMIT)[k].id = responses[i].id

\* C19 witness: two successful analyses of different files, one with motion
C19_Witness ==
  /\ Len(responses) = 2
  /\ responses[1].filename # responses[2].filename
  /\ responses[1].motion_detected # responses[2].motion_detected
  /\ get_analysis(db, responses[2].id).body[1].filename = responses[2].filename

\* C20 (as claimed): two requests whose saved files exist at the same time
\* hold different paths, and the file of a request in flight is in the
\* upload directory as that request wrote it.
C20_SavedPathsAreUnique ==
  /\ \A w1, w2 \in Workers :
       (w1 # w2 /\ InFlight(w1) /\ InFlight(w2)) =>
         workers[w1].video_path # workers[w2].video_path
  /\ \A w \in Workers : InFlight(w) => OwnFileExists(w)

\* A step of the loop that pulled one frame from the source.
FrameDecoded == cap'.decoded = cap.decoded + 1

\* The accumulators of the loop other than the frame count.
Retained(r) ==
  <<r.frames_analyzed, r.motion_frames, r.prev_frame, r.total_motion_intensity>>

\* C21: for a positive stride S every decoded frame raises frame_count by
\* one, whether analysed or not; the frame is preprocessed (and kept) exactly
\* when its 1-based count is k*S for some k >= 1; a frame with another count
\* changes nothing but the count: it is not preprocessed, compared or stored.
C21_OnlyMultiplesOfStrideArePreprocessed ==
  [][ (ValidStride /\ FrameDecoded) =>
        /\ run'.frame_count = run.frame_count + 1
        /\ run'.frame_count = cap'.decoded
        /\ IF \E k \in 1..MaxFrames :
                 run'.frame_count = k * analyzer.frame_sample_rate
           THEN /\ run'.frames_analyzed = run.frames_analyzed + 1
                /\ ValidResolution =>
                     run'.prev_frame =
                       Some(PreprocessFrame(analyzer, cap'.last[1]))
           ELSE /\ Retained(run') = Retained(run)
                /\ observed' = observed
                /\ pc' = pc
    ]_vars

\* C21 witness: stride 2, five frames decoded: the fifth was dropped, the slot
\* still holds the fourth, which differs from the fifth
C21_Witness ==
  /\ pc = "loop"
  /\ analyzer.frame_sample_rate = 2
  /\ ValidResolution
  /\ run.frame_count = 5
  /\ run.frames_analyzed = 2
  /\ run.prev_frame # Some(PreprocessFrame(analyzer, cap.last[1]))

\* C22: every comparison is between the frame in the previous-frame slot and
\* the frame just preprocessed; after each retained frame the slot holds that
\* frame, flagged or not; between retained frames the slot does not change,
\* so the pair compared is the two frames retained last (counts (k-1)*S and
\* k*S); the first retained frame is compared with nothing.  The slot holds at
\* most one frame.
C22_PreviousIsLastRetained ==
  [][ (ValidResolution /\ pc = "loop" /\ pc' = "loop") =>
        IF run'.frames_analyzed = run.frames_analyzed + 1
        THEN LET curr == PreprocessFrame(analyzer, cap'.last[1])
             IN /\ run'.prev_frame = Some(curr)
                /\ IF run.prev_frame = None
                   THEN observed' = observed
                   ELSE observed' =
                          Observe(observed,
                                  DetectMotion(analyzer, run.prev_frame[1], curr))
        ELSE /\ run'.prev_frame = run.prev_frame
             /\ observed' = observed
    ]_vars

\* C22 witness: a comparison that was not flagged although the two frames
\* differ, after which the slot holds the later frame
C22_Witness ==
  /\ pc = "loop"
  /\ ValidResolution
  /\ observed.comparisons = 1
  /\ observed.unflagged_nonzero
  /\ run.motion_frames = 0
  /\ run.prev_frame = Some(PreprocessFrame(analyzer, cap.last[1]))

\* What the last comparison returned.
LastComparison == observed.last[1]

\* The change fraction of the last comparison equals the threshold.
AtThreshold ==
  LastComparison.changed_pixels * 100 =
    analyzer.motion_threshold * LastComparison.total_pixels

\* Some pixel of the two frames differs by more than the cutoff.
DiffersBeyondCutoff(a, b) ==
  \E r \in 1..Len(a) : \E c \in 1..Len(a[r]) : Abs(a[r][c] - b[r][c]) > 25

\* C23: a comparison is flagged iff changed_pixels / total_pixels of the
\* binarized and dilated difference is strictly greater than motion_threshold
\* (a fraction equal to the threshold is not flagged), and the comparison
\* counts a changed pixel only if some pixel of the two frames differs by
\* more than 25.
C23_FlaggedIffFractionExceedsThreshold ==
  [][ (ValidResolution /\ pc = "loop" /\ pc' = "loop"
         /\ observed'.comparisons = observed.comparisons + 1) =>
        LET obs == observed'.last[1]
        IN /\ obs.motion_detected <=>
                obs.changed_pixels * 100 > analyzer.motion_threshold * obs.total_pixels
           /\ obs.total_pixels = Len(run'.prev_frame[1]) * Len(run'.prev_frame[1][1])
           /\ obs.changed_pixels > 0 <=>
                DiffersBeyondCutoff(run.prev_frame[1], run'.prev_frame[1])
           /\ run'.motion_frames =
                run.motion_frames + (IF obs.motion_detected THEN 1 ELSE 0)
    ]_vars

\* C23 witness: half of the pixels changed under a threshold of one half, and
\* the comparison was not flagged
C23_Witness ==
  /\ observed.last # None
  /\ analyzer.motion_threshold = 50
  /\ LastComparison.changed_pixels > 0
  /\ AtThreshold
  /\ ~LastComparison.motion_detected
  /\ run.motion_frames = 0

Ended == pc \in {"done", "raised"}

\* C24 (as claimed): every run of analyze on a finite source reaches done.
C24_RunReachesDone == <>(pc = "done")

\* C24: every run of analyze on a finite source ends, in done or with an
\* error; each frame is pulled once (the count of frames pulled is the frame
\* count); the first ret = False ends the loop, after it no frame is read and
\* the counters do not change; done is never left and the result stays as
\* it was returned.
C24_RunEndsAndStaysEnded ==
  /\ <>Ended
  /\ [](pc = "loop" => ~cap.eos /\ run.frame_count = cap.decoded)
  /\ [][ (cap.eos \/ Ended) => (cap'.decoded = cap.decoded /\ run' = run) ]_vars
  /\ [][ pc = "done" => (pc' = "done" /\ result' = result) ]_vars
  /\ [][ pc = "raised" => pc' = "raised" ]_vars

\* C24 witness: a run of MaxFrames frames that ended at the end of the stream
C24_Witness ==
  /\ pc = "done"
  /\ cap.eos
  /\ ~cap.decode_failed
  /\ run.frame_count = MaxFrames
  /\ Res.frames_analyzed > 0

\* C25: once the source was opened, an exception raised while frames are
\* read, preprocessed or compared passes through the except clause and leaves
\* analyze as VideoProcessingError, whatever its own type; no result is
\* returned, and the try block is left by an exception in no other way.
C25_FailureAfterOpenIsVideoProcessingError ==
  /\ [](pc = "except" => (cap.opens > 0 /\ error # "" /\ result = None))
  /\ []((pc = "raised" /\ cap.opens > 0) =>
          (error = "VideoProcessingError" /\ result = None))
  /\ [][ (pc \in {"try", "loop", "finish"} /\ error' # error) => pc' = "except" ]_vars
  /\ [][ pc = "except" => pc' = "raised" ]_vars

\* C25 witness: analyze has left with an error after some frames were analysed
\* and compared
C25_Witness ==
  /\ pc = "raised"
  /\ cap.opens = 1
  /\ observed.comparisons > 0
  /\ error = "VideoProcessingError"
  /\ result = None

\* The request of worker w has been through validate_video_file.
Validated(w) ==
  /\ workers[w].pc \notin {"idle", "validate"}
  /\ workers[w].stage # "save"

BadExtension(w) ==
  Lower(workers[w].video_path[1].filename.ext) \notin ALLOWED_EXTENSIONS

\* C26: validate checks existence, size, extension, MIME type in this order
\* and stops at the first failure: a missing file is InvalidVideoError (422)
\* with nothing read from it; an existing file over the size limit is
\* VideoTooLargeError (413) whatever its extension; UnsupportedFormatError
\* (415) is raised only for an existing file within the limit; and a request
\* that passed has a file within the limit with an allowed extension.
C26_FirstFailingCheckIsReported ==
  \A w \in Workers :
    Validated(w) =>
      LET r == workers[w]
      IN IF r.validated = None
         THEN r.stage = "validate" /\ r.raised = "InvalidVideoError" /\ r.status = 422
         ELSE IF r.validated[1].size > max_size_bytes
         THEN r.stage = "validate" /\ r.raised = "VideoTooLargeError" /\ r.status = 413
         ELSE IF BadExtension(w)
         THEN r.stage = "validate" /\ r.raised = "UnsupportedFormatError" /\ r.status = 415
         ELSE r.stage # "validate"

\* C26 witness: a file over the limit with an unsupported extension was
\* answered 413, and a missing file 422
C26_Witness ==
  /\ Validated(1)
  /\ workers[1].validated # None
  /\ workers[1].validated[1].size > max_size_bytes
  /\ BadExtension(1)
  /\ workers[1].raised = "VideoTooLargeError"
  /\ workers[1].status = 413
  /\ Validated(2)
  /\ workers[2].validated = None
  /\ workers[2].raised = "InvalidVideoError"

\* C27 (as claimed): in analyze_with_details every capture handle that was
\* opened is released exactly once, and no property is read from a handle
\* after its release.
C27_ReleasedOnceAndNotReadAfterRelease ==
  details.pc \in {"done", "raised"} =>
    \A i \in 1..Len(details.handles) :
      /\ details.handles[i].opens = 1 => details.handles[i].releases = 1
      /\ details.handles[i].stale_reads = 0

\* The request of worker w has left the body of the handler with an error.
Failed(w) == workers[w].pc \in {"finally", "done"} /\ workers[w].raised # ""

\* C28: every failure inside analyze_video is answered 413, 415, 422 or 500,
\* never 400 (no exception leaves the handler for the application's
\* handler), and a request answers 200 only without a failure; an
\* InvalidVideoError of the analyzer, for a file that passed validation, is
\* answered 500 and counted as UnexpectedError, not as InvalidVideoError.
C28_FailuresAreHttpExceptions ==
  /\ [](\A w \in Workers :
         /\ Failed(w) => workers[w].status \in {413, 415, 422, 500}
         /\ workers[w].pc \in {"finally", "done"} =>
              (workers[w].status = 200 <=> workers[w].raised = "")
         /\ (Failed(w) /\ workers[w].stage = "analyze") => workers[w].status = 500)
  /\ [][ \A w \in Workers :
           (workers[w].pc = "analyze" /\ workers'[w].raised = "InvalidVideoError") =>
             /\ workers'[w].status = 500
             /\ metrics' = record_processing_error(metrics, "UnexpectedError")
       ]_apiVars

\* C28 witness: a file that passed validation and could not be opened was
\* answered 500 and counted as UnexpectedError
C28_Witness ==
  /\ workers[1].pc = "done"
  /\ workers[1].validated # None
  /\ workers[1].raised = "InvalidVideoError"
  /\ workers[1].stage = "analyze"
  /\ workers[1].status = 500
  /\ metrics.videos_processing_errors_total["UnexpectedError"] = 1
  /\ metrics.videos_processing_errors_total["InvalidVideoError"] = 0

\* The request of worker w has committed its row and not yet answered.
Committed(w) == workers[w].pc = "finally" /\ workers[w].status = 200

\* C29: the stored records are those of the requests that were validated,
\* analysed and committed, one each, all with status "completed": their
\* number is the number of such requests; a step changes the table only by
\* appending the one row of a request that commits; a request that fails
\* leaves the table as it was.
C29_OneRecordPerCommittedRequest ==
  /\ [](/\ Len(db) = Len(responses) + Cardinality({ w \in Workers : Committed(w) })
        /\ \A k \in 1..Len(db) : db[k].status = "completed")
  /\ [][ db' # db =>
           \E w \in Workers :
             /\ workers[w].pc = "store"
             /\ workers[w].validated # None
             /\ workers[w].result # None
             /\ workers'[w].status = 200
             /\ workers'[w].raised = ""
             /\ db' = Append(db, db'[Len(db')])
             /\ db'[Len(db')].filename = workers[w].filename[1]
             /\ db'[Len(db')].motion_detected = workers[w].result[1].motion_detected
       ]_apiVars
  /\ [][ \A w \in Workers :
           (workers[w].raised = "" /\ workers'[w].raised # "") => db' = db ]_apiVars

\* C29 witness: one request failed in the analysis, the other was stored
C29_Witness ==
  /\ workers[1].pc = "done"
  /\ workers[1].raised = "VideoProcessingError"
  /\ workers[2].pc = "done"
  /\ workers[2].status = 200
  /\ Len(db) = 1
  /\ db[1].status = "completed"
  /\ db[1].filename = workers[2].filename[1]

\* The sum of videos_processing_errors_total over its labels.
ErrorsTotal(m) ==
  m.videos_processing_errors_total["VideoTooLargeError"]
    + m.videos_processing_errors_total["UnsupportedFormatError"]
    + m.videos_processing_errors_total["InvalidVideoError"]
    + m.videos_processing_errors_total["VideoProcessingError"]
    + m.videos_processing_errors_total["UnexpectedError"]

\* The request of worker w is still before the point where it is counted.
Uncounted(w) == workers[w].pc \in {"validate", "analyze", "analysing", "store"}

\* The request of worker w leaves the body of the handler in this step.
Leaves(w) == workers[w].pc # "finally" /\ workers'[w].pc = "finally"

\* C30: every request is counted once: the step in which it leaves the body
\* of the handler adds one to videos_processed_total and to no error counter
\* when it succeeded, one to the error counter of a single label and nothing
\* to videos_processed_total when it failed; no other step changes a
\* counter.  So processed + errors is the number of requests counted, and
\* videos_motion_detected_total <= videos_processed_total in every state.
C30_EachRequestCountedOnce ==
  /\ [](/\ metrics.videos_processed_total + ErrorsTotal(metrics) =
             served - Cardinality({ w \in Workers : Uncounted(w) })
        /\ metrics.videos_motion_detected_total <= metrics.videos_processed_total)
  /\ [][ \A w \in Workers :
           Leaves(w) =>
             IF workers'[w].status = 200
             THEN /\ metrics'.videos_processed_total =
                       metrics.videos_processed_total + 1
                  /\ metrics'.videos_processing_errors_total =
                       metrics.videos_processing_errors_total
             ELSE /\ metrics'.videos_processed_total = metrics.videos_processed_total
                  /\ metrics'.videos_motion_detected_total =
                       metrics.videos_motion_detected_total
                  /\ \E l \in ErrorLabels : metrics' = record_processing_error(metrics, l)
       ]_apiVars
  /\ [][ metrics' # metrics => \E w \in Workers : Leaves(w) ]_apiVars

\* C30 witness: one request failed and one succeeded with motion
C30_Witness ==
  /\ served = 2
  /\ \A w \in Workers : workers[w].pc = "done"
  /\ metrics.videos_processed_total = 1
  /\ metrics.videos_motion_detected_total = 1
  /\ metrics.videos_processing_errors_total["VideoTooLargeError"] = 1
  /\ ErrorsTotal(metrics) = 1

====
